---- MODULE Spec2Model ----
(***************************************************************************)
(* Model of cli/cmd/metapartition.go: the meta partition health check.     *)
(*                                                                         *)
(*   SpecCheck    checkMetaPartition, one step per statement group and     *)
(*                one step per iteration of its replica loop               *)
(*   SpecSweep    checkAllMetaPartitions ("check --all"): the coordinator  *)
(*                and the goroutines it starts for every volume            *)
(*   SpecDefault  the Run function of newListCorruptMetaPartitionCmd       *)
(*                without --all                                            *)
(*                                                                         *)
(* Every reply of the master and of the meta nodes is an input, drawn      *)
(* from a small set at the step that makes the call.                       *)
(*                                                                         *)
(* Addresses are the strings "host:port".  The model writes the address of *)
(* host h as the number h*10+1 (one port, 1, for all nodes), so that the   *)
(* order of numbers is the lexicographic order of the strings.  Lists of   *)
(* hosts, peers, replicas and ids hold no element twice, as the master and *)
(* the meta nodes keep them.                                               *)
(***************************************************************************)
EXTENDS Integers, Sequences, FiniteSets, TLC

\* ---------------------------------------------------------------- bounds
NumAddrs == 2
MaxPid == 2
MaxVols == 2
MaxInactive == 2
MaxCorrupt == 3
MaxLack == 2

\* ------------------------------------------------------------- constants
\* proto.Unavailable, the status of a partition without a leader, which
\* line 227 writes as the literal -1
NoLeader == -1
\* the statuses a record carries: no leader, and 2 (read-write)
StatusValues == {NoLeader, 2}

Nil == [nil |-> TRUE]
NoErr == "nil"
ErrNotFound == "meta partition not exists"
ErrTimeout == "request timeout"
ErrDiagnose == "diagnose failed"
ErrNoNode == "meta node not exists"

Addrs == {h * 10 + 1 : h \in 1..NumAddrs}

\* ---------------------------------------------------------------- helpers
Range(s) == {s[i] : i \in DOMAIN s}

NoDup(s) == \A i, j \in DOMAIN s : i # j => s[i] # s[j]

\* the lists of at most n elements of S that hold no element twice
ListsOf(S, n) == UNION {{s \in [1..k -> S] : NoDup(s)} : k \in 0..n}

InsertAt(s, i, x) == SubSeq(s, 1, i - 1) \o <<x>> \o SubSeq(s, i, Len(s))

\* sort.Strings: the list in ascending order (insertion, element by element)
RECURSIVE SortStrings(_)
SortStrings(s) ==
  IF s = <<>> THEN <<>>
  ELSE LET rest == SortStrings(SubSeq(s, 1, Len(s) - 1))
           x == s[Len(s)]
           pos == Cardinality({i \in DOMAIN rest : rest[i] <= x}) + 1
       IN InsertAt(rest, pos, x)

\* fmt's %v of a small number
Digits == <<"0", "1", "2", "3", "4", "5", "6", "7", "8", "9">>
Itoa(n) == Digits[n + 1]

\* strings.Split(r.Addr, ":")[0]: the host of "host:port"
StripPort(addr) == addr \div 10

\* fmt.Sprintf("%v/%v", a, b), kept as its two parts
CountCell(a, b) == <<a, b>>

\* ------------------------------------------------- replies of the cluster
\* []proto.Peer of a meta node's reply, and what a meta node may answer
PeerLists == {[i \in DOMAIN s |-> [Addr |-> s[i]]] : s \in ListsOf(Addrs, NumAddrs)}

MetaNodeReplies ==
  {[err |-> ErrTimeout, Peers |-> <<>>]}
    \cup {[err |-> NoErr, Peers |-> ps] : ps \in PeerLists}

\* partition.MissNodes: only its size is read
MissChoices == {{}, {11}}

ReplicaLists == {[i \in DOMAIN s |-> [Addr |-> s[i]]] : s \in ListsOf(Addrs, NumAddrs)}

\* proto.MetaPartitionInfo, the fields the check reads
PartitionRecords(id) ==
  [PartitionID : {id}, ReplicaNum : 1..NumAddrs, Status : StatusValues,
   Hosts : ListsOf(Addrs, NumAddrs), MissNodes : MissChoices,
   Replicas : ReplicaLists]

\* what client.ClientAPI().GetMetaPartition(id) may return
GetMetaPartitionReplies(id) ==
  {[err |-> ErrNotFound, partition |-> Nil], [err |-> NoErr, partition |-> Nil]}
    \cup {[err |-> NoErr, partition |-> p] : p \in PartitionRecords(id)}

\* ------------------------------------------------------- rows of a report
\* a line of the output: its kind, the id or address it is about, its
\* peers cell, its error text and the addresses of its last column
Row(kind, key, cell, err, addrs) ==
  [kind |-> kind, key |-> key, cell |-> cell, err |-> err, addrs |-> addrs]

NotFoundRow(e) == Row("notfound", 0, <<>>, e, <<>>)

formatMetaPartitionInfoRow(p) == Row("info", p.PartitionID, <<>>, NoErr, <<>>)

UnhealthyMsgRow == Row("unhealthy", 0, <<>>, NoErr, <<>>)

FailedRow(p, r, e) ==
  Row("failed", r.Addr, CountCell("nil", Itoa(p.ReplicaNum)), e, <<>>)

PeersRow(p, r, peerStrings) ==
  Row("peers", r.Addr, CountCell(Itoa(Len(peerStrings)), Itoa(p.ReplicaNum)),
      NoErr, peerStrings)

\* ----------------------------------------------------- checkMetaPartition
convertPeersToArray(peers) == [i \in DOMAIN peers |-> peers[i].Addr]

isEqualStrings(a, b) == SortStrings(a) = SortStrings(b)

\* line 227 without its test of the status
ReportedUnhealthy_NoStatus(p) ==
  \/ Cardinality(p.MissNodes) > 0
  \/ Len(p.Hosts) # p.ReplicaNum

\* line 227
ReportedUnhealthy(p) ==
  \/ Cardinality(p.MissNodes) > 0
  \/ p.Status = NoLeader
  \/ Len(p.Hosts) # p.ReplicaNum

\* lines 219-231: the state of the call once the record is fetched; f is
\* [sb, isHealthy, err, partition, done]
AfterFetch(reply) ==
  IF reply.err # NoErr
    THEN [sb |-> <<NotFoundRow(reply.err)>>, isHealthy |-> TRUE, err |-> reply.err,
          partition |-> Nil, outPut |-> <<>>, done |-> TRUE]
  ELSE IF reply.partition = Nil
    THEN [sb |-> <<>>, isHealthy |-> TRUE, err |-> NoErr,
          partition |-> Nil, outPut |-> <<>>, done |-> TRUE]
  ELSE LET p == [reply.partition EXCEPT !.Hosts = SortStrings(@)]
           bad == ReportedUnhealthy(p)
       IN [sb |-> <<formatMetaPartitionInfoRow(p)>>
                    \o (IF bad THEN <<UnhealthyMsgRow>> ELSE <<>>),
           isHealthy |-> ~bad, err |-> NoErr,
           partition |-> p, outPut |-> <<>>, done |-> FALSE]

PeersUnhealthy(p, peerStrings) ==
  \/ ~isEqualStrings(p.Hosts, peerStrings)
  \/ Len(peerStrings) # p.ReplicaNum

\* the iteration without line 239
ReplicaStep_KeepsHealthy(f, r, reply) ==
  IF reply.err # NoErr
    THEN [f EXCEPT !.sb = Append(@, FailedRow(f.partition, r, reply.err))]
  ELSE LET peerStrings == SortStrings(convertPeersToArray(reply.Peers))
       IN [f EXCEPT !.sb = Append(@, PeersRow(f.partition, r, peerStrings)),
                    !.isHealthy = @ /\ ~PeersUnhealthy(f.partition, peerStrings)]

\* lines 232-253: one iteration of the replica loop, for replica r and the
\* reply of its meta node
ReplicaStep(f, r, reply) ==
  IF reply.err # NoErr
    THEN [f EXCEPT !.sb = Append(@, FailedRow(f.partition, r, reply.err)),
                   !.isHealthy = FALSE]
  ELSE LET peerStrings == SortStrings(convertPeersToArray(reply.Peers))
       IN [f EXCEPT !.sb = Append(@, PeersRow(f.partition, r, peerStrings)),
                    !.isHealthy = @ /\ ~PeersUnhealthy(f.partition, peerStrings)]

\* lines 255-256
Finish(f) == [f EXCEPT !.outPut = f.sb, !.done = TRUE]

\* the whole call, for the reply of the master and one reply per replica
RECURSIVE ReplicaLoop(_, _, _)
ReplicaLoop(f, i, replies) ==
  IF i > Len(f.partition.Replicas) THEN Finish(f)
  ELSE ReplicaLoop(ReplicaStep(f, f.partition.Replicas[i], replies[i]), i + 1, replies)

checkMetaPartition(reply, replies) ==
  LET f == AfterFetch(reply) IN IF f.done THEN f ELSE ReplicaLoop(f, 1, replies)

\* ------------------------------------------------------------------ state
VARIABLES
  cmPc,      \* checkMetaPartition: "start", "replicas", "done"
  cmFrame,   \* its locals and results: sb, isHealthy, err, partition, outPut
  cmIdx,     \* the index of the next replica in partition.Replicas
  cmNode,    \* the meta nodes asked so far, in order (StripPort of r.Addr)
  cmReply    \* mnPartition, err of the loop body: the last meta node reply

cmVars == <<cmPc, cmFrame, cmIdx, cmNode, cmReply>>

CheckPid == 1

CmIdle == [sb |-> <<>>, isHealthy |-> TRUE, err |-> NoErr, partition |-> Nil,
           outPut |-> <<>>, done |-> FALSE]

NoReply == [err |-> NoErr, Peers |-> <<>>]

CmInit ==
  /\ cmPc = "start" /\ cmFrame = CmIdle /\ cmIdx = 1 /\ cmNode = <<>>
  /\ cmReply = NoReply

\* lines 216-231
CmFetch ==
  /\ cmPc = "start"
  /\ \E reply \in GetMetaPartitionReplies(CheckPid) :
       LET f == AfterFetch(reply)
       IN /\ cmFrame' = f
          /\ cmPc' = IF f.done THEN "done" ELSE "replicas"
  /\ UNCHANGED <<cmIdx, cmNode, cmReply>>

\* lines 232-253
CmReplica ==
  /\ cmPc = "replicas"
  /\ cmIdx <= Len(cmFrame.partition.Replicas)
  /\ LET r == cmFrame.partition.Replicas[cmIdx]
     IN /\ \E reply \in MetaNodeReplies :
             /\ cmFrame' = ReplicaStep(cmFrame, r, reply)
             /\ cmReply' = reply
        /\ cmNode' = Append(cmNode, StripPort(r.Addr))
  /\ cmIdx' = cmIdx + 1
  /\ UNCHANGED cmPc

\* lines 254-256
CmReturn ==
  /\ cmPc = "replicas"
  /\ cmIdx > Len(cmFrame.partition.Replicas)
  /\ cmFrame' = Finish(cmFrame)
  /\ cmPc' = "done"
  /\ UNCHANGED <<cmIdx, cmNode, cmReply>>


\* ------------------------------------------------- checkAllMetaPartitions
VARIABLES
  swPc,      \* the coordinator: "listVols", "nextVol", "spawn", "done"
  swVolInfo, \* volInfo: the number of volumes listed (volumes 1..n)
  swVol,     \* the index of the volume of the current iteration
  swViews,   \* per volume fetched so far: the reply of GetVolume
  swMps,     \* volView.MetaPartitions of the current volume, sorted
  swJ,       \* the index of the next partition to start a goroutine for
  wg,        \* the WaitGroup's counter
  tasks,     \* the goroutines started so far, in order; runs counts the
             \* calls of checkMetaPartition a goroutine made
  stream,    \* the writes to the standard output, in order
  swErr      \* err, the named result

swVars == <<swPc, swVolInfo, swVol, swViews, swMps, swJ, wg, tasks, stream, swErr>>

SwInit ==
  /\ swPc = "listVols" /\ swVolInfo = 0 /\ swVol = 1 /\ swViews = <<>>
  /\ swMps = <<>> /\ swJ = 1 /\ wg = 0 /\ tasks = <<>> /\ stream = <<>>
  /\ swErr = NoErr

Write(who, kind, text) == [task |-> who, kind |-> kind, text |-> text]

\* the cases of one diagnosis the sweep is run on: the master's reply and
\* the replies of the replicas' meta nodes
SweepRecord(id) ==
  [PartitionID |-> id, ReplicaNum |-> 2, Status |-> 2, Hosts |-> <<21, 11>>,
   MissNodes |-> {}, Replicas |-> <<[Addr |-> 11], [Addr |-> 21]>>]

GoodReply == [err |-> NoErr, Peers |-> <<[Addr |-> 21], [Addr |-> 11]>>]

DiagCases(id) ==
  { [fetch |-> [err |-> ErrNotFound, partition |-> Nil], replies |-> <<>>],
    [fetch |-> [err |-> NoErr, partition |-> SweepRecord(id)],
     replies |-> <<GoodReply, GoodReply>>],
    [fetch |-> [err |-> NoErr, partition |-> SweepRecord(id)],
     replies |-> <<GoodReply, [err |-> ErrTimeout, Peers |-> <<>>]>>] }

\* partition ids are unique in the cluster: a volume lists ids no earlier
\* volume listed
UsedPids == UNION {Range(swViews[v].mps) : v \in DOMAIN swViews}

GetVolumeReplies ==
  {[err |-> ErrNotFound, mps |-> <<>>]}
    \cup {[err |-> NoErr, mps |-> m] : m \in ListsOf((1..MaxPid) \ UsedPids, MaxPid)}

\* lines 180-187
SwListVols ==
  /\ swPc = "listVols"
  /\ \/ /\ swErr' = ErrTimeout
        /\ stream' = Append(stream, Write(0, "error", <<>>))
        /\ swPc' = "done"
        /\ UNCHANGED swVolInfo
     \/ /\ \E n \in 0..MaxVols : swVolInfo' = n
        /\ stream' = stream \o <<Write(0, "blank", <<>>), Write(0, "title", <<>>),
                                 Write(0, "header", <<>>)>>
        /\ swPc' = "nextVol"
        /\ UNCHANGED swErr
  /\ UNCHANGED <<swVol, swViews, swMps, swJ, wg, tasks>>

\* lines 188-197
SwGetVolume ==
  /\ swPc = "nextVol"
  /\ swVol <= swVolInfo
  /\ \E reply \in GetVolumeReplies :
       /\ swViews' = Append(swViews, reply)
       /\ swErr' = reply.err
       /\ IF reply.err # NoErr
            THEN /\ stream' = Append(stream, Write(0, "invalid vol", <<>>))
                 /\ swVol' = swVol + 1
                 /\ UNCHANGED <<swPc, swMps, swJ, wg>>
            ELSE /\ swMps' = SortStrings(reply.mps)
                 /\ swJ' = 1
                 /\ wg' = 0
                 /\ swPc' = "spawn"
                 /\ UNCHANGED <<stream, swVol>>
  /\ UNCHANGED <<swVolInfo, tasks>>

\* lines 198-200, 210: wg.Add(1) and the go statement
SwSpawn ==
  /\ swPc = "spawn"
  /\ swJ <= Len(swMps)
  /\ wg' = wg + 1
  /\ tasks' = Append(tasks, [vol |-> swVol, pid |-> swMps[swJ], pc |-> "check",
                             outPut |-> <<>>, isHealthy |-> FALSE, runs |-> 0])
  /\ swJ' = swJ + 1
  /\ UNCHANGED <<swPc, swVolInfo, swVol, swViews, swMps, stream, swErr>>

\* the loop without line 212
WaitReturns_NoWait == TRUE

\* line 212: wg.Wait() returns
WaitReturns == wg = 0

\* lines 212-213
SwWait ==
  /\ swPc = "spawn"
  /\ swJ > Len(swMps)
  /\ WaitReturns
  /\ swVol' = swVol + 1
  /\ swPc' = "nextVol"
  /\ UNCHANGED <<swVolInfo, swViews, swMps, swJ, wg, tasks, stream, swErr>>

\* line 214
SwReturn ==
  /\ swPc = "nextVol"
  /\ swVol > swVolInfo
  /\ swPc' = "done"
  /\ UNCHANGED <<swVolInfo, swVol, swViews, swMps, swJ, wg, tasks, stream, swErr>>

\* line 205 without its test
ShouldPrint_Always(isHealthy) == TRUE

\* line 205
ShouldPrint(isHealthy) == ~isHealthy

\* lines 202-205
TaskCheck(t) ==
  /\ tasks[t].pc = "check"
  /\ \E c \in DiagCases(tasks[t].pid) :
       LET res == checkMetaPartition(c.fetch, c.replies)
       IN tasks' = [tasks EXCEPT ![t].outPut = res.outPut,
                                 ![t].isHealthy = res.isHealthy,
                                 ![t].runs = @ + 1,
                                 ![t].pc = IF ShouldPrint(res.isHealthy)
                                             THEN "print" ELSE "sleep"]
  /\ UNCHANGED <<swPc, swVolInfo, swVol, swViews, swMps, swJ, wg, stream, swErr>>

\* line 206
TaskPrintReport(t) ==
  /\ tasks[t].pc = "print"
  /\ stream' = Append(stream, Write(t, "report", tasks[t].outPut))
  /\ tasks' = [tasks EXCEPT ![t].pc = "separator"]
  /\ UNCHANGED <<swPc, swVolInfo, swVol, swViews, swMps, swJ, wg, swErr>>

\* line 207
TaskPrintSeparator(t) ==
  /\ tasks[t].pc = "separator"
  /\ stream' = Append(stream, Write(t, "separator", <<>>))
  /\ tasks' = [tasks EXCEPT ![t].pc = "sleep"]
  /\ UNCHANGED <<swPc, swVolInfo, swVol, swViews, swMps, swJ, wg, swErr>>

\* lines 209, 201: the delay, then the deferred wg.Done()
TaskSleepDone(t) ==
  /\ tasks[t].pc = "sleep"
  /\ tasks' = [tasks EXCEPT ![t].pc = "done"]
  /\ wg' = wg - 1
  /\ UNCHANGED <<swPc, swVolInfo, swVol, swViews, swMps, swJ, stream, swErr>>



\* ------------------------------------- the check command without --all
VARIABLES
  dcPc,      \* "diagnose", "sortInactive", "getNodes", "printNodes",
             \* "corrupt", "lack", "done", "crash"
  diagnosis, \* the reply of DiagnoseMetaPartition, or Nil
  metaNodes, \* the node records fetched, Nil where the fetch failed
  dcI,       \* the index of the current loop
  dcOut,     \* the lines written, in order
  dcCalls,   \* the ids GetMetaPartition was called with, in order
  dcErr      \* err

dcVars == <<dcPc, diagnosis, metaNodes, dcI, dcOut, dcCalls, dcErr>>

DcInit ==
  /\ dcPc = "diagnose" /\ diagnosis = Nil /\ metaNodes = <<>> /\ dcI = 1
  /\ dcOut = <<>> /\ dcCalls = <<>> /\ dcErr = NoErr

Line(kind) == Row(kind, 0, <<>>, NoErr, <<>>)

InactiveAddrs == {h * 10 + 1 : h \in 1..MaxInactive}

\* proto.MetaPartitionDiagnosis
Diagnoses ==
  [InactiveMetaNodes : ListsOf(InactiveAddrs, MaxInactive),
   CorruptMetaPartitionIDs : ListsOf(1..MaxCorrupt, MaxCorrupt),
   LackReplicaMetaPartitionIDs : ListsOf(1..MaxLack, MaxLack)]

\* what client.NodeAPI().GetMetaNode(addr) may return
GetMetaNodeReplies(addr) ==
  {[err |-> ErrNoNode, node |-> Nil]}
    \cup {[err |-> NoErr, node |-> [ID |-> id, Addr |-> addr]] : id \in 1..MaxInactive}

\* sort.SliceStable(metaNodes, ... .ID < ...): ascending ID, equal IDs in
\* the order they had
RECURSIVE SortNodesByID(_)
SortNodesByID(s) ==
  IF s = <<>> THEN <<>>
  ELSE LET rest == SortNodesByID(SubSeq(s, 1, Len(s) - 1))
           x == s[Len(s)]
           pos == Cardinality({i \in DOMAIN rest : rest[i].ID <= x.ID}) + 1
       IN InsertAt(rest, pos, x)

formatMetaNodeDetail(node) == Row("node", node.ID, <<>>, NoErr, <<node.Addr>>)

\* the replies the lack-replica loop is run on, per partition: no record,
\* an error, a record whose first replica answers and whose second does not
LackCases(id) ==
  { [fetch |-> [err |-> ErrNotFound, partition |-> Nil], replies |-> <<>>],
    [fetch |-> [err |-> NoErr, partition |-> Nil], replies |-> <<>>],
    [fetch |-> [err |-> NoErr, partition |-> SweepRecord(id)],
     replies |-> <<GoodReply, [err |-> ErrTimeout, Peers |-> <<>>]>>] }

\* lines 153-169: the rows of the replicas of a lack-replica partition
RECURSIVE LackReplicaRows(_, _, _)
LackReplicaRows(p, i, replies) ==
  IF i > Len(p.Replicas) THEN <<>>
  ELSE LET r == p.Replicas[i]
           row == IF replies[i].err # NoErr
                    THEN Row("nodata", r.Addr, CountCell(Itoa(0), Itoa(p.ReplicaNum)),
                             NoErr, <<>>)
                    ELSE Row("peers", r.Addr,
                             CountCell(Itoa(Len(replies[i].Peers)), Itoa(p.ReplicaNum)),
                             NoErr, SortStrings(convertPeersToArray(replies[i].Peers)))
       IN <<row>> \o LackReplicaRows(p, i + 1, replies)

\* lines 103-107
DcDiagnose ==
  /\ dcPc = "diagnose"
  /\ \/ /\ diagnosis' = Nil
        /\ dcErr' = ErrDiagnose
        /\ dcOut' = <<Row("error", 0, <<>>, ErrDiagnose, <<>>),
                      Line("nodesTitle"), Line("header")>>
     \/ /\ \E d \in Diagnoses : diagnosis' = d
        /\ dcErr' = NoErr
        /\ dcOut' = <<Line("nodesTitle"), Line("header")>>
  /\ dcPc' = "sortInactive"
  /\ UNCHANGED <<metaNodes, dcI, dcCalls>>

\* lines 108-110: the list of an absent diagnosis is read
DcSortInactive ==
  /\ dcPc = "sortInactive"
  /\ IF diagnosis = Nil
       THEN dcPc' = "crash" /\ UNCHANGED diagnosis
       ELSE /\ diagnosis' = [diagnosis EXCEPT !.InactiveMetaNodes = SortStrings(@)]
            /\ dcPc' = "getNodes"
  /\ UNCHANGED <<metaNodes, dcI, dcOut, dcCalls, dcErr>>

\* lines 111-115
DcGetMetaNode ==
  /\ dcPc = "getNodes"
  /\ dcI <= Len(diagnosis.InactiveMetaNodes)
  /\ \E reply \in GetMetaNodeReplies(diagnosis.InactiveMetaNodes[dcI]) :
       /\ metaNodes' = Append(metaNodes, reply.node)
       /\ dcErr' = reply.err
  /\ dcI' = dcI + 1
  /\ UNCHANGED <<dcPc, diagnosis, dcOut, dcCalls>>

\* lines 116-118: with two records or more the comparison reads the ID of
\* every one of them
DcSortNodes ==
  /\ dcPc = "getNodes"
  /\ dcI > Len(diagnosis.InactiveMetaNodes)
  /\ IF Len(metaNodes) >= 2 /\ Nil \in Range(metaNodes)
       THEN dcPc' = "crash" /\ UNCHANGED <<metaNodes, dcI>>
       ELSE /\ metaNodes' = IF Len(metaNodes) >= 2 THEN SortNodesByID(metaNodes)
                            ELSE metaNodes
            /\ dcI' = 1
            /\ dcPc' = "printNodes"
  /\ UNCHANGED <<diagnosis, dcOut, dcCalls, dcErr>>

\* lines 119-121: the row of an absent record reads its fields
DcPrintNode ==
  /\ dcPc = "printNodes"
  /\ dcI <= Len(metaNodes)
  /\ IF metaNodes[dcI] = Nil
       THEN dcPc' = "crash" /\ UNCHANGED <<dcI, dcOut>>
       ELSE /\ dcOut' = Append(dcOut, formatMetaNodeDetail(metaNodes[dcI]))
            /\ dcI' = dcI + 1
            /\ UNCHANGED dcPc
  /\ UNCHANGED <<diagnosis, metaNodes, dcCalls, dcErr>>

\* lines 126-128 left out
SortCorruptIDs_Unsorted(ids) == ids

\* lines 126-128
SortCorruptIDs(ids) == SortStrings(ids)

\* lines 123-128
DcSortCorrupt ==
  /\ dcPc = "printNodes"
  /\ dcI > Len(metaNodes)
  /\ dcOut' = dcOut \o <<Line("blank"), Line("corruptTitle"), Line("header")>>
  /\ diagnosis' = [diagnosis EXCEPT !.CorruptMetaPartitionIDs = SortCorruptIDs(@)]
  /\ dcI' = 1
  /\ dcPc' = "corrupt"
  /\ UNCHANGED <<metaNodes, dcCalls, dcErr>>

\* the loop going on after a failed fetch
CorruptFailPc_Continue == "corrupt"

\* line 133: the return that follows a failed fetch
CorruptFailPc == "done"

\* lines 129-136: the row of an absent record reads its fields
DcCorrupt ==
  /\ dcPc = "corrupt"
  /\ dcI <= Len(diagnosis.CorruptMetaPartitionIDs)
  /\ LET pid == diagnosis.CorruptMetaPartitionIDs[dcI]
     IN /\ dcCalls' = Append(dcCalls, pid)
        /\ \E reply \in {[err |-> ErrNotFound, partition |-> Nil],
                         [err |-> NoErr, partition |-> Nil],
                         [err |-> NoErr, partition |-> SweepRecord(pid)]} :
             /\ dcErr' = reply.err
             /\ IF reply.err # NoErr
                  THEN /\ dcOut' = Append(dcOut, NotFoundRow(reply.err))
                       /\ dcPc' = CorruptFailPc
                  ELSE IF reply.partition = Nil
                  THEN dcPc' = "crash" /\ UNCHANGED dcOut
                  ELSE /\ dcOut' = Append(dcOut, formatMetaPartitionInfoRow(reply.partition))
                       /\ UNCHANGED dcPc
  /\ dcI' = dcI + 1
  /\ UNCHANGED <<diagnosis, metaNodes>>

\* lines 138-143
DcSortLack ==
  /\ dcPc = "corrupt"
  /\ dcI > Len(diagnosis.CorruptMetaPartitionIDs)
  /\ dcOut' = dcOut \o <<Line("blank"), Line("lackTitle"), Line("header")>>
  /\ diagnosis' = [diagnosis EXCEPT !.LackReplicaMetaPartitionIDs = SortStrings(@)]
  /\ dcI' = 1
  /\ dcPc' = "lack"
  /\ UNCHANGED <<metaNodes, dcCalls, dcErr>>

\* lines 144-172
DcLack ==
  /\ dcPc = "lack"
  /\ dcI <= Len(diagnosis.LackReplicaMetaPartitionIDs)
  /\ LET pid == diagnosis.LackReplicaMetaPartitionIDs[dcI]
     IN /\ dcCalls' = Append(dcCalls, pid)
        /\ \E c \in LackCases(pid) :
             /\ dcErr' = c.fetch.err
             /\ IF c.fetch.err # NoErr
                  THEN /\ dcOut' = Append(dcOut, NotFoundRow(c.fetch.err))
                       /\ dcPc' = "done"
                  ELSE IF c.fetch.partition = Nil
                  THEN UNCHANGED <<dcOut, dcPc>>
                  ELSE LET p == [c.fetch.partition EXCEPT !.Hosts = SortStrings(@)]
                       IN /\ dcOut' = dcOut \o <<formatMetaPartitionInfoRow(p)>>
                                        \o LackReplicaRows(p, 1, c.replies)
                                        \o <<Line("separator")>>
                          /\ UNCHANGED dcPc
  /\ dcI' = dcI + 1
  /\ UNCHANGED <<diagnosis, metaNodes>>

\* line 173
DcReturn ==
  /\ dcPc = "lack"
  /\ dcI > Len(diagnosis.LackReplicaMetaPartitionIDs)
  /\ dcPc' = "done"
  /\ UNCHANGED <<diagnosis, metaNodes, dcI, dcOut, dcCalls, dcErr>>

\* ------------------------------------------------------- specifications
\* The three are runs of different commands: each specification takes the
\* steps of one of them and leaves the state of the others as it starts.
vars == <<cmVars, swVars, dcVars>>

Init == CmInit /\ SwInit /\ DcInit

CheckNext ==
  \/ CmFetch /\ UNCHANGED <<swVars, dcVars>>
  \/ CmReplica /\ UNCHANGED <<swVars, dcVars>>
  \/ CmReturn /\ UNCHANGED <<swVars, dcVars>>

SweepNext ==
  \/ SwListVols /\ UNCHANGED <<cmVars, dcVars>>
  \/ SwGetVolume /\ UNCHANGED <<cmVars, dcVars>>
  \/ SwSpawn /\ UNCHANGED <<cmVars, dcVars>>
  \/ SwWait /\ UNCHANGED <<cmVars, dcVars>>
  \/ SwReturn /\ UNCHANGED <<cmVars, dcVars>>
  \/ \E t \in DOMAIN tasks : TaskCheck(t) /\ UNCHANGED <<cmVars, dcVars>>
  \/ \E t \in DOMAIN tasks : TaskPrintReport(t) /\ UNCHANGED <<cmVars, dcVars>>
  \/ \E t \in DOMAIN tasks : TaskPrintSeparator(t) /\ UNCHANGED <<cmVars, dcVars>>
  \/ \E t \in DOMAIN tasks : TaskSleepDone(t) /\ UNCHANGED <<cmVars, dcVars>>

DefaultNext ==
  \/ DcDiagnose /\ UNCHANGED <<cmVars, swVars>>
  \/ DcSortInactive /\ UNCHANGED <<cmVars, swVars>>
  \/ DcGetMetaNode /\ UNCHANGED <<cmVars, swVars>>
  \/ DcSortNodes /\ UNCHANGED <<cmVars, swVars>>
  \/ DcPrintNode /\ UNCHANGED <<cmVars, swVars>>
  \/ DcSortCorrupt /\ UNCHANGED <<cmVars, swVars>>
  \/ DcCorrupt /\ UNCHANGED <<cmVars, swVars>>
  \/ DcSortLack /\ UNCHANGED <<cmVars, swVars>>
  \/ DcLack /\ UNCHANGED <<cmVars, swVars>>
  \/ DcReturn /\ UNCHANGED <<cmVars, swVars>>

SpecCheck == Init /\ [][CheckNext]_vars

SpecSweep == Init /\ [][SweepNext]_vars

SpecDefault == Init /\ [][DefaultNext]_vars

\* ------------------------------------------- claims on checkMetaPartition
ReplicaRows(sb) == SelectSeq(sb, LAMBDA row : row.kind \in {"failed", "peers"})

CmReturned == cmPc = "done" /\ cmFrame.err = NoErr /\ cmFrame.partition # Nil

\* C1: for a record the master returned, the call returns healthy exactly
\* when no host is missing, the status is not the no-leader value, the
\* number of hosts is the replica number, and every replica of the record
\* answered with peers that are, as a set, the hosts, and that number the
\* replica number.
C1_HealthyIff ==
  CmReturned =>
    LET p == cmFrame.partition
        rows == ReplicaRows(cmFrame.outPut)
    IN cmFrame.isHealthy <=>
         /\ p.MissNodes = {}
         /\ p.Status # NoLeader
         /\ Len(p.Hosts) = p.ReplicaNum
         /\ Len(rows) = Len(p.Replicas)
         /\ \A i \in DOMAIN rows :
              /\ rows[i].kind = "peers"
              /\ Range(rows[i].addrs) = Range(p.Hosts)
              /\ Len(rows[i].addrs) = p.ReplicaNum

C1_Witness ==
  /\ CmReturned
  /\ cmFrame.isHealthy
  /\ Len(cmFrame.partition.Replicas) = 2
  /\ cmReply.Peers = <<[Addr |-> 21], [Addr |-> 11]>>

\* C2 (as the code has it): an iteration of the replica loop whose meta
\* node fails marks the partition unhealthy for good, adds a row for that
\* replica that shows `shown` against the replica number and the error
\* text, and goes on with the loop; an iteration whose meta node answers
\* adds a row with the number of peers of the answer; and at the return
\* every replica of the record was asked, in order, and has its row.
C2_Iteration(shown) ==
  (cmPc = "replicas" /\ cmIdx' = cmIdx + 1) =>
    LET p == cmFrame.partition
        r == p.Replicas[cmIdx]
        row == cmFrame'.sb[Len(cmFrame'.sb)]
    IN /\ cmFrame'.sb = Append(cmFrame.sb, row)
       /\ row.key = r.Addr
       /\ cmPc' = "replicas"
       /\ cmNode' = Append(cmNode, StripPort(r.Addr))
       /\ cmReply'.err # NoErr =>
            /\ ~cmFrame'.isHealthy
            /\ row.cell = CountCell(shown, Itoa(p.ReplicaNum))
            /\ row.err = cmReply'.err
       /\ cmReply'.err = NoErr =>
            row.cell = CountCell(Itoa(Len(cmReply'.Peers)), Itoa(p.ReplicaNum))

C2_AllAsked ==
  CmReturned =>
    LET p == cmFrame.partition
        rows == ReplicaRows(cmFrame.outPut)
    IN /\ Len(rows) = Len(p.Replicas)
       /\ cmNode = [i \in DOMAIN p.Replicas |-> StripPort(p.Replicas[i].Addr)]
       /\ (\E i \in DOMAIN rows : rows[i].kind = "failed") => ~cmFrame.isHealthy

\* C2 as claimed: the row of the failed replica shows 0/factor
C2_Original == [][C2_Iteration("0")]_cmVars /\ []C2_AllAsked

\* C2 amended: the row of the failed replica shows nil/factor
C2_FailedRowShowsNil == [][C2_Iteration("nil")]_cmVars /\ []C2_AllAsked

C2_Witness ==
  /\ CmReturned
  /\ ~cmFrame.isHealthy
  /\ LET rows == ReplicaRows(cmFrame.outPut)
     IN /\ Len(rows) = 2
        /\ rows[1].kind = "failed" /\ rows[1].cell = <<"nil", "2">>
        /\ rows[2].kind = "peers" /\ rows[2].cell = <<"2", "2">>

\* C3: when the master does not return the record, the call returns a
\* report that is not empty and says the partition is not found, with the
\* error.
C3_NotFoundReport ==
  (cmPc = "done" /\ cmFrame.err # NoErr) =>
    \E i \in DOMAIN cmFrame.outPut :
      cmFrame.outPut[i].kind = "notfound" /\ cmFrame.outPut[i].err = cmFrame.err

\* C4: the call never returns healthy together with an error.
C4_NoHealthyWithError ==
  ~(cmPc = "done" /\ cmFrame.isHealthy /\ cmFrame.err # NoErr)

\* ---------------------------------------- claims on checkAllMetaPartitions
TaskKey(t) == <<tasks[t].vol, tasks[t].pid>>

\* the partitions the volume views fetched so far list
Listed ==
  UNION {{<<v, swViews[v].mps[k]>> : k \in DOMAIN swViews[v].mps} : v \in DOMAIN swViews}

Reports(t) == {i \in DOMAIN stream : stream[i].kind = "report" /\ stream[i].task = t}

\* C5: no listed partition gets two diagnoses and none but a listed one
\* gets any; when the sweep returns, every volume was visited, every
\* listed partition was diagnosed exactly once, and a report was printed
\* for a partition exactly when its verdict was unhealthy.
C5_EachListedOnce ==
  /\ \A t, u \in DOMAIN tasks : TaskKey(t) = TaskKey(u) => t = u
  /\ \A t \in DOMAIN tasks : TaskKey(t) \in Listed /\ tasks[t].runs <= 1
  /\ swPc = "done" =>
       /\ Len(swViews) = swVolInfo
       /\ Len(tasks) = Cardinality(Listed)
       /\ \A t \in DOMAIN tasks :
            /\ tasks[t].runs = 1
            /\ tasks[t].pc = "done"
            /\ Cardinality(Reports(t)) = IF tasks[t].isHealthy THEN 0 ELSE 1

C5_Witness ==
  /\ swPc = "done"
  /\ Len(swViews) = 2
  /\ Len(tasks) = 2
  /\ tasks[1].vol = 1 /\ tasks[1].isHealthy /\ Reports(1) = {}
  /\ tasks[2].vol = 2 /\ ~tasks[2].isHealthy /\ Reports(2) # {}

\* C6: volume views are fetched in list order, goroutines are started in
\* the order of their volumes, and while a goroutine of a volume has not
\* finished (its delay included), no view of a later volume is fetched and
\* no goroutine of a later volume exists.
C6_JoinBarrier ==
  /\ Len(swViews) \in {swVol - 1, swVol}
  /\ \A t \in DOMAIN tasks :
       /\ tasks[t].vol <= Len(swViews)
       /\ tasks[t].vol < Len(swViews) => tasks[t].pc = "done"
  /\ \A t, u \in DOMAIN tasks :
       /\ t < u => tasks[t].vol <= tasks[u].vol
       /\ tasks[t].vol < tasks[u].vol => tasks[t].pc = "done"

C6_Witness ==
  \E t, u \in DOMAIN tasks :
    /\ tasks[t].vol = 1 /\ tasks[t].pc = "done"
    /\ tasks[u].vol = 2 /\ tasks[u].pc = "separator"

\* C9: in the output of the sweep every report is followed at once by the
\* separator of the goroutine that wrote it.
C9_SeparatorFollowsReport ==
  \A i \in DOMAIN stream :
    (stream[i].kind = "report" /\ i < Len(stream)) =>
      stream[i + 1] = Write(stream[i].task, "separator", <<>>)

\* --------------------------------- claims on the check without --all
Titles == {"nodesTitle", "corruptTitle", "lackTitle"}

\* the rows of one kind between a title and the next title
SectionRows(title, kind) ==
  LET at == {i \in DOMAIN dcOut : dcOut[i].kind = title}
  IN IF at = {} THEN <<>>
     ELSE LET first == CHOOSE i \in at : TRUE
              later == {j \in DOMAIN dcOut : j > first /\ dcOut[j].kind \in Titles}
              last == IF later = {} THEN Len(dcOut)
                      ELSE (CHOOSE j \in later : \A k \in later : j <= k) - 1
          IN SelectSeq(SubSeq(dcOut, first + 1, last), LAMBDA row : row.kind = kind)

Keys(rows) == [i \in DOMAIN rows |-> rows[i].key]

Ascending(s) == \A i, j \in DOMAIN s : i < j => s[i] < s[j]

NodeRows == SectionRows("nodesTitle", "node")
CorruptRows == SectionRows("corruptTitle", "info")
LackRows == SectionRows("lackTitle", "info")

PartitionRowsAscending ==
  /\ Ascending(Keys(CorruptRows))
  /\ Range(Keys(CorruptRows)) \subseteq Range(diagnosis.CorruptMetaPartitionIDs)
  /\ Ascending(Keys(LackRows))
  /\ Range(Keys(LackRows)) \subseteq Range(diagnosis.LackReplicaMetaPartitionIDs)

\* C7 as claimed: the rows of the inactive nodes are in ascending order of
\* address, those of the corrupt and of the lack-replica partitions in
\* ascending order of id.
C7_Original ==
  dcOut # <<>> /\ diagnosis # Nil =>
    /\ Ascending([i \in DOMAIN NodeRows |-> NodeRows[i].addrs[1]])
    /\ PartitionRowsAscending

\* C7 amended: the rows of the inactive nodes are in ascending order of
\* the ID of the node records, records of one ID in ascending order of
\* address; those of the partitions in ascending order of id.
C7_NodeRowsByID ==
  dcOut # <<>> /\ diagnosis # Nil =>
    /\ \A i, j \in DOMAIN NodeRows :
         i < j => \/ NodeRows[i].key < NodeRows[j].key
                  \/ /\ NodeRows[i].key = NodeRows[j].key
                     /\ NodeRows[i].addrs[1] < NodeRows[j].addrs[1]
    /\ PartitionRowsAscending

C7_Witness ==
  /\ dcPc = "done"
  /\ Keys(NodeRows) = <<1, 2>>
  /\ NodeRows[1].addrs = <<21>> /\ NodeRows[2].addrs = <<11>>
  /\ Keys(CorruptRows) = <<1, 2, 3>>
  /\ Keys(LackRows) = <<1, 2>>

CorruptAborted ==
  /\ \E i \in DOMAIN dcOut : dcOut[i].kind = "corruptTitle"
  /\ \A i \in DOMAIN dcOut : dcOut[i].kind # "lackTitle"
  /\ \E i \in DOMAIN dcOut : dcOut[i].kind = "notfound"

\* C8: once a fetch of the corrupt listing has failed the command is over:
\* the failure line is the last line, the fetches made are those of the
\* ids up to the failed one in ascending order, the rows printed are those
\* of the ids before it, and no later id was fetched or printed.
C8_FailFast ==
  CorruptAborted =>
    LET ids == diagnosis.CorruptMetaPartitionIDs
        k == Len(dcCalls)
    IN /\ dcPc = "done"
       /\ dcOut[Len(dcOut)].kind = "notfound"
       /\ Ascending(ids)
       /\ k >= 1 /\ k <= Len(ids)
       /\ dcCalls = SubSeq(ids, 1, k)
       /\ Keys(CorruptRows) = SubSeq(ids, 1, k - 1)
       /\ \A j \in (k + 1)..Len(ids) :
            ids[j] \notin Range(dcCalls) \cup Range(Keys(CorruptRows))

C8_Witness ==
  /\ CorruptAborted
  /\ Len(diagnosis.CorruptMetaPartitionIDs) = 3
  /\ dcCalls = <<1, 2>>
  /\ Keys(CorruptRows) = <<1>>

\* C10: the command never reads a result it did not receive.
C10_NeverCrashes == dcPc # "crash"

====
